---- MODULE Spec2Model ----
(***************************************************************************)
(* Order & Inventory Management API (backend/src/main.py, init_db.py).     *)
(*                                                                         *)
(* The store is a PostgreSQL database with three tables (products,         *)
(* inventory, orders).  Every request runs in its own SQLAlchemy session   *)
(* (autocommit=False, autoflush=False): queries read the committed rows,   *)
(* attribute assignments stay in the session until db.commit(), which      *)
(* flushes them as INSERT / UPDATE ... WHERE pk / DELETE ... WHERE pk and   *)
(* commits them as one transaction (default isolation: READ COMMITTED).    *)
(***************************************************************************)
EXTENDS Integers, FiniteSets, Sequences, TLC

\* ---------------------------------------------------------------- bounds
\* Number of distinct values uuid4()[:8] takes in the model.
MaxOrders == 2
\* Largest value of the wall clock read by datetime.now().
MaxClock == 1
\* Number of requests admitted when requests overlap.
MaxRequests == 3

\* ------------------------------------------------------- option values
None == <<>>
Some(x) == <<x>>
IsNone(o) == o = <<>>
IsSome(o) == o # <<>>
Get(o) == o[1]

\* --------------------------------------------------------------- tables
\* A table is a function from primary key to row.
Insert(table, key, row) == (key :> row) @@ table
Delete(table, key) == [k \in DOMAIN table \ {key} |-> table[k]]
EmptyTable == <<>>

\* The values order_id = f"ORD-{str(uuid.uuid4())[:8].upper()}" ranges over.
OrderIds == 1..MaxOrders

OrderStatusEnum == {"Pending", "Processing", "Shipped", "Delivered"}

\* init_db.py: the sample products (price in cents).
SeedProducts ==
    (1 :> [name |-> "Laptop", price |-> 99999, description |-> "High-performance laptop"]) @@
    (2 :> [name |-> "Mouse", price |-> 2999, description |-> "Wireless ergonomic mouse"]) @@
    (3 :> [name |-> "Keyboard", price |-> 7999, description |-> "Mechanical keyboard"]) @@
    (4 :> [name |-> "Monitor", price |-> 29999, description |-> "27-inch 4K monitor"]) @@
    (5 :> [name |-> "Headphones", price |-> 14999, description |-> "Noise-cancelling headphones"])

\* init_db.py: the sample inventory, keyed by product_id (unique column).
SeedInventory ==
    (1 :> [id |-> 1, product_name |-> "Laptop", quantity |-> 45, price |-> 99999]) @@
    (2 :> [id |-> 2, product_name |-> "Mouse", quantity |-> 150, price |-> 2999]) @@
    (3 :> [id |-> 3, product_name |-> "Keyboard", quantity |-> 8, price |-> 7999]) @@
    (4 :> [id |-> 4, product_name |-> "Monitor", quantity |-> 30, price |-> 29999]) @@
    (5 :> [id |-> 5, product_name |-> "Headphones", quantity |-> 67, price |-> 14999])

\* ------------------------------------------------------ request inputs
\* Product ids requests name: two seeded ones (Laptop, 45 in stock, and
\* Keyboard, 8 in stock) and an unseeded one.
RequestProductIds == {1, 3, 999}
\* Requested quantities: negative, zero, within stock, above stock.
RequestQuantities == {-5, 0, 5, 9}
\* Customer email strings, each a sequence of its characters: "a@b.co",
\* "a@B.CO", "A <a@b.co> " and "a.b.co".
RequestEmails ==
    {<<"a", "@", "b", ".", "c", "o">>,
     <<"a", "@", "B", ".", "C", "O">>,
     <<"A", " ", "<", "a", "@", "b", ".", "c", "o", ">", " ">>,
     <<"a", ".", "b", ".", "c", "o">>}
RequestNames == {"Ann"}

Sessions == {1, 2}
\* Runs of the script init_db.py that can be in progress at once.
SeedRuns == {1, 2}

VARIABLES
    products,   \* table products: id -> row
    inventory,  \* table inventory: product_id -> row
    orders,     \* table orders: id -> row
    clock,      \* the value datetime.now() returns
    sess,       \* per request: its position and its session's loaded objects
    seed,       \* per run of init_db.py: its position and what it printed
    budget      \* requests still admitted: None (no limit) or Some(n)

vars == <<products, inventory, orders, clock, sess, seed, budget>>

\* A request slot with no request in it.
IdleSession ==
    [pc |-> "idle", op |-> "none", req |-> None, product |-> None,
     inventory |-> None, order |-> None, now |-> None, resp |-> None]

\* A run of init_db.py that has not started.
IdleRun == [pc |-> "idle", outcome |-> "none"]

\* HTTPException(status_code, detail) and unhandled exceptions (500).
HTTPException(code, detail) == [status_code |-> code, detail |-> detail]
InternalServerError(what) == [status_code |-> 500, detail |-> [error |-> what]]

\* The pydantic model Order built from an OrderDB row.
Order(id, row) ==
    [id |-> id,
     customerName |-> row.customer_name,
     customerEmail |-> row.customer_email,
     productId |-> row.product_id,
     productName |-> row.product_name,
     quantity |-> row.quantity,
     status |-> row.status,
     createdAt |-> row.created_at,
     updatedAt |-> row.updated_at]

\* ------------------------------------------------------------- EmailStr
\* A text is the sequence of its characters: ASCII characters and the
\* whitespace characters of Unicode.  A character a string of this module
\* cannot hold is written as its code point, "U+000B".
UpperCaseLetters ==
    <<"A", "B", "C", "D", "E", "F", "G", "H", "I", "J", "K", "L", "M",
      "N", "O", "P", "Q", "R", "S", "T", "U", "V", "W", "X", "Y", "Z">>
LowerCaseLetters ==
    <<"a", "b", "c", "d", "e", "f", "g", "h", "i", "j", "k", "l", "m",
      "n", "o", "p", "q", "r", "s", "t", "u", "v", "w", "x", "y", "z">>
Letters ==
    {UpperCaseLetters[i] : i \in DOMAIN UpperCaseLetters}
        \cup {LowerCaseLetters[i] : i \in DOMAIN LowerCaseLetters}
Digits == {"0", "1", "2", "3", "4", "5", "6", "7", "8", "9"}
\* The characters str.strip() removes and the regex class \s matches.
Whitespace ==
    {" ", "\t", "\n", "\r", "\f", "U+000B", "U+001C", "U+001D", "U+001E",
     "U+001F", "U+0085", "U+00A0", "U+1680", "U+2000", "U+2001", "U+2002",
     "U+2003", "U+2004", "U+2005", "U+2006", "U+2007", "U+2008", "U+2009",
     "U+200A", "U+2028", "U+2029", "U+202F", "U+205F", "U+3000"}
\* The grave accent.
GraveAccent == "U+0060"
\* The characters of a display name and of an unquoted local part.
NameChars ==
    Letters \cup Digits \cup
        {"_", "!", "#", "$", "%", "&", "'", "*", "+", "-", "/", "=", "?",
         "^", GraveAccent, "{", "|", "}", "~"}

\* str.lower().
Lower(text) ==
    [i \in DOMAIN text |->
        IF \E k \in DOMAIN UpperCaseLetters : UpperCaseLetters[k] = text[i]
        THEN LowerCaseLetters[CHOOSE k \in DOMAIN UpperCaseLetters :
                                UpperCaseLetters[k] = text[i]]
        ELSE text[i]]

\* str.strip().
RECURSIVE LStrip(_)
LStrip(text) ==
    IF text # <<>> /\ Head(text) \in Whitespace THEN LStrip(Tail(text))
    ELSE text
RECURSIVE RStrip(_)
RStrip(text) ==
    IF text # <<>> /\ text[Len(text)] \in Whitespace
    THEN RStrip(SubSeq(text, 1, Len(text) - 1))
    ELSE text
Strip(text) == LStrip(RStrip(text))

\* The name in front of "<address>": nothing, words of NameChars separated
\* by whitespace, or a text in double quotes.
DisplayName(text) ==
    \/ text = <<>>
    \/ /\ \A i \in DOMAIN text : text[i] \in NameChars \cup Whitespace
       /\ text[1] \in NameChars
       /\ text[Len(text)] \in NameChars
    \/ /\ Len(text) >= 3
       /\ text[1] = "\""
       /\ text[Len(text)] = "\""

\* The positions of the "<" at which pretty_email_regex,
\* \s*(name)?\s*<(.+)>\s*, matches the whole of the stripped text.
PrettyMatches(text) ==
    {i \in DOMAIN text :
        /\ text[i] = "<"
        /\ text[Len(text)] = ">"
        /\ i + 1 < Len(text)
        /\ \A j \in (i + 1)..(Len(text) - 1) : text[j] # "\n"
        /\ DisplayName(RStrip(SubSeq(text, 1, i - 1)))}

\* The address pydantic hands to the validator: the text between "<" and
\* ">" of a "Name <address>", else the whole value, stripped.  A quoted
\* name is matched greedily, so it extends to the last "<" that fits.
PrettyAddress(value) ==
    LET text == Strip(value) IN
    IF PrettyMatches(text) = {} THEN text
    ELSE LET i == CHOOSE i \in PrettyMatches(text) :
                    \A j \in PrettyMatches(text) :
                        IF text[1] = "\"" THEN i >= j ELSE i <= j
         IN  Strip(SubSeq(text, i + 1, Len(text) - 1))

\* Top-level domains reserved for special use, which the validator refuses.
SpecialUseDomains ==
    {<<"a", "r", "p", "a">>, <<"i", "n", "v", "a", "l", "i", "d">>,
     <<"l", "o", "c", "a", "l">>,
     <<"l", "o", "c", "a", "l", "h", "o", "s", "t">>,
     <<"o", "n", "i", "o", "n">>, <<"t", "e", "s", "t">>}

\* A dot-atom: characters of `chars` and single dots, none at either end.
DotAtom(text, chars) ==
    /\ text # <<>>
    /\ \A i \in DOMAIN text : text[i] \in chars \cup {"."}
    /\ text[1] # "."
    /\ text[Len(text)] # "."
    /\ \A i \in 1..(Len(text) - 1) : ~(text[i] = "." /\ text[i + 1] = ".")

\* The syntax of the part after the "@": labels of letters, digits and
\* inner hyphens joined by dots, at least two of them, the last ending in
\* a letter and not reserved; no label longer than 63 characters.
ValidDomain(domain) ==
    /\ DotAtom(domain, Letters \cup Digits \cup {"-"})
    /\ domain[1] # "-"
    /\ domain[Len(domain)] # "-"
    /\ \A i \in 1..(Len(domain) - 1) :
            /\ ~(domain[i] = "-" /\ domain[i + 1] = ".")
            /\ ~(domain[i] = "." /\ domain[i + 1] = "-")
    /\ \E i \in DOMAIN domain : domain[i] = "."
    /\ domain[Len(domain)] \in Letters
    /\ \A i \in DOMAIN domain :
            i + 63 <= Len(domain) =>
                \E j \in i..(i + 63) : domain[j] = "."
    /\ \A d \in SpecialUseDomains :
            ~( /\ Len(domain) > Len(d)
               /\ SubSeq(Lower(domain), Len(domain) - Len(d), Len(domain))
                    = <<".">> \o d )

\* The position of the first "@" of text, 0 when it has none.
AtIndex(text) ==
    IF \E i \in DOMAIN text : text[i] = "@"
    THEN CHOOSE i \in DOMAIN text :
            /\ text[i] = "@"
            /\ \A j \in 1..(i - 1) : text[j] # "@"
    ELSE 0

\* main.py 82, customerEmail: EmailStr.  None when the value is not an
\* email address, else the normalised address the model field holds: the
\* display name and outer whitespace dropped, the domain in lower case.
EmailStr(value) ==
    LET email == PrettyAddress(value)
        at == AtIndex(email)
        local == SubSeq(email, 1, at - 1)
        domain == SubSeq(email, at + 1, Len(email))
    IN  IF /\ Len(value) <= 2048
           /\ at > 0
           /\ DotAtom(local, NameChars)
           /\ Len(local) <= 64
           /\ ValidDomain(domain)
           /\ Len(email) <= 254
        THEN Some(local \o <<"@">> \o Lower(domain))
        ELSE None

\* main.py 80-84: the body model OrderCreate built from a request body.
\* None when validation fails (422), else the model the handler receives
\* as `order`: customerName, productId and quantity as submitted (quantity
\* is any int), customerEmail normalised.
OrderCreate(body) ==
    LET email == EmailStr(body.customerEmail) IN
    IF IsNone(email) THEN None
    ELSE Some([body EXCEPT !.customerEmail = Get(email)])

\* The request bodies tried: every quantity on the Keyboard and on the
\* unseeded product, one quantity on the Laptop; the email addresses that
\* validation rewrites on the order of 5 Keyboards.
OrderCreateRequests ==
    {order \in [customerName : RequestNames, customerEmail : RequestEmails,
                productId : RequestProductIds, quantity : RequestQuantities] :
        /\ order.productId = 1 => order.quantity = 5
        /\ EmailStr(order.customerEmail)
                \notin {None, Some(order.customerEmail)} =>
                    order.productId = 3 /\ order.quantity = 5}

\* OrderCreate of each of `bodies`, as a table from body to model.
RECURSIVE OrderCreateTable(_)
OrderCreateTable(bodies) ==
    IF bodies = {} THEN EmptyTable
    ELSE LET body == CHOOSE body \in bodies : TRUE
         IN  (body :> OrderCreate(body)) @@ OrderCreateTable(bodies \ {body})

\* OrderCreate of the request bodies tried, computed once.
OrderCreateModels == OrderCreateTable(OrderCreateRequests)

\* main.py 208, order: OrderCreate: the body parsed into the model;
\* OrderCreate(body), looked up for the bodies tried.
ParseBody(body) ==
    IF body \in DOMAIN OrderCreateModels THEN OrderCreateModels[body]
    ELSE OrderCreate(body)

\* The request leaves its handler with response r.
Respond(s, r) ==
    sess' = [sess EXCEPT ![s] = [@ EXCEPT !.pc = "done", !.resp = Some(r)]]

\* A request is admitted while the budget lasts.
Admit ==
    /\ budget # Some(0)
    /\ budget' = IF IsSome(budget) THEN Some(Get(budget) - 1) ELSE budget

Init ==
    /\ budget = None
    /\ products = EmptyTable
    /\ inventory = EmptyTable
    /\ orders = EmptyTable
    /\ clock = 0
    /\ sess = [s \in Sessions |-> IdleSession]
    /\ seed = [r \in SeedRuns |-> IdleRun]

\* ------------------------------------------------------------ init_database
\* What a run prints before its session is closed (init_db.py 32, 60, 63):
\* "skipped", "seeded" or the error caught.
SeedOutcome(r, outcome) ==
    seed' = [seed EXCEPT ![r] = [pc |-> "done", outcome |-> outcome]]

\* Mutant: the script does not look at what exists and seeds again,
\* replacing the rows it finds.
init_database_count_Reseeds(r) ==
    /\ seed[r].pc = "idle"
    /\ products' = SeedProducts
    /\ inventory' = SeedInventory
    /\ SeedOutcome(r, "seeded")
    /\ UNCHANGED <<orders, clock, sess, budget>>

\* init_db.py 26-33: the products are counted; the run ends there when
\* there are any.
init_database_count(r) ==
    /\ seed[r].pc = "idle"
    /\ IF Cardinality(DOMAIN products) > 0
       THEN SeedOutcome(r, "skipped")
       ELSE seed' = [seed EXCEPT ![r] = [pc |-> "counted", outcome |-> "none"]]
    /\ UNCHANGED <<products, inventory, orders, clock, sess, budget>>

\* The INSERTs of the sample rows violate a constraint: products.id,
\* inventory.id (primary keys) or inventory.product_id (unique).
SeedClash ==
    \/ DOMAIN products \cap DOMAIN SeedProducts # {}
    \/ \E p \in DOMAIN inventory, q \in DOMAIN SeedInventory :
            p = q \/ inventory[p].id = SeedInventory[q].id

\* init_db.py 36-64: the five products and five inventory rows are added
\* and committed as one transaction; an IntegrityError is caught, printed
\* and rolled back.
init_database_commit(r) ==
    /\ seed[r].pc = "counted"
    /\ IF SeedClash
       THEN /\ UNCHANGED <<products, inventory>>
            /\ SeedOutcome(r, "IntegrityError")
       ELSE /\ products' = SeedProducts @@ products
            /\ inventory' = SeedInventory @@ inventory
            /\ SeedOutcome(r, "seeded")
    /\ UNCHANGED <<orders, clock, sess, budget>>

\* init_db.py 62-64: the count or the commit raises because the store is
\* unreachable; the error is printed and nothing is persisted.
init_database_error(r) ==
    /\ seed[r].pc \in {"idle", "counted"}
    /\ SeedOutcome(r, "OperationalError")
    /\ UNCHANGED <<products, inventory, orders, clock, sess, budget>>

\* init_db.py 65-70: the session is closed and the script ends.
init_database_exit(r) ==
    /\ seed[r].pc = "done"
    /\ seed' = [seed EXCEPT ![r] = IdleRun]
    /\ UNCHANGED <<products, inventory, orders, clock, sess, budget>>

\* A run of the script takes its next step.
init_database(r) ==
    \/ init_database_count(r)
    \/ init_database_commit(r)
    \/ init_database_error(r)
    \/ init_database_exit(r)

\* ------------------------------------------------------------ create_order
\* Mutant: the inventory row is looked up before the product.
create_order_start_InventoryFirst(s, order) ==
    /\ sess[s].pc = "idle"
    /\ IF IsNone(ParseBody(order))
       THEN sess' = [sess EXCEPT ![s] =
                [IdleSession EXCEPT !.pc = "done", !.op = "create_order",
                    !.req = Some(order),
                    !.resp = Some(HTTPException(422, [error |-> "InvalidInput"]))]]
       ELSE IF order.productId \notin DOMAIN inventory
       THEN sess' = [sess EXCEPT ![s] =
                [IdleSession EXCEPT !.pc = "done", !.op = "create_order",
                    !.req = Some(order),
                    !.resp = Some(HTTPException(404,
                        [error |-> "NotFound", what |-> "Inventory",
                         id |-> order.productId]))]]
       ELSE IF order.productId \notin DOMAIN products
       THEN sess' = [sess EXCEPT ![s] =
                [IdleSession EXCEPT !.pc = "done", !.op = "create_order",
                    !.req = Some(order),
                    !.resp = Some(HTTPException(404,
                        [error |-> "NotFound", what |-> "Product",
                         id |-> order.productId]))]]
       ELSE sess' = [sess EXCEPT ![s] =
                [IdleSession EXCEPT !.pc = "create_order_inventory",
                    !.op = "create_order", !.req = Some(order),
                    !.product = Some(products[order.productId])]]
    /\ Admit
    /\ UNCHANGED <<products, inventory, orders, clock, seed>>

\* main.py 207-217: the request body is validated, then the product is
\* queried; 404 when it does not exist.  sess[s].req keeps the body as it
\* was submitted; the handler's `order` is OrderCreate of it.
create_order_start(s, order) ==
    /\ sess[s].pc = "idle"
    /\ IF IsNone(ParseBody(order))
       THEN sess' = [sess EXCEPT ![s] =
                [IdleSession EXCEPT !.pc = "done", !.op = "create_order",
                    !.req = Some(order),
                    !.resp = Some(HTTPException(422, [error |-> "InvalidInput"]))]]
       ELSE IF order.productId \notin DOMAIN products
       THEN sess' = [sess EXCEPT ![s] =
                [IdleSession EXCEPT !.pc = "done", !.op = "create_order",
                    !.req = Some(order),
                    !.resp = Some(HTTPException(404,
                        [error |-> "NotFound", what |-> "Product",
                         id |-> order.productId]))]]
       ELSE sess' = [sess EXCEPT ![s] =
                [IdleSession EXCEPT !.pc = "create_order_inventory",
                    !.op = "create_order", !.req = Some(order),
                    !.product = Some(products[order.productId])]]
    /\ Admit
    /\ UNCHANGED <<products, inventory, orders, clock, seed>>

\* main.py 227: the availability check.
Insufficient(available, requested) == available < requested

\* Mutant: the two quantities are reported the wrong way round.
InsufficientInventory_Swapped(available, requested) ==
    [status_code |-> 400,
     detail |-> [error |-> "InsufficientInventory",
                 available |-> requested, requested |-> available]]

\* main.py 228-231: the 400 naming the available and requested quantities.
InsufficientInventory(available, requested) ==
    HTTPException(400,
        [error |-> "InsufficientInventory",
         available |-> available, requested |-> requested])

\* main.py 219-231: the inventory row is queried; 404 when it does not
\* exist, 400 when inventory.quantity < order.quantity.
create_order_inventory(s) ==
    /\ sess[s].pc = "create_order_inventory"
    /\ LET order == Get(sess[s].req) IN
       IF order.productId \notin DOMAIN inventory
       THEN Respond(s, HTTPException(404,
                [error |-> "NotFound", what |-> "Inventory",
                 id |-> order.productId]))
       ELSE IF Insufficient(inventory[order.productId].quantity,
                            order.quantity)
       THEN Respond(s, InsufficientInventory(
                inventory[order.productId].quantity, order.quantity))
       ELSE sess' = [sess EXCEPT ![s] =
                [@ EXCEPT !.pc = "create_order_add",
                    !.inventory = Some(inventory[order.productId])]]
    /\ UNCHANGED <<products, inventory, orders, clock, seed, budget>>

\* main.py 233-252: the order id is generated and the time read; the new
\* order is added to the session and the loaded inventory object is
\* decremented, all in memory.
create_order_add(s) ==
    /\ sess[s].pc = "create_order_add"
    /\ \E order_id \in OrderIds :
        sess' = [sess EXCEPT ![s] =
            [@ EXCEPT !.pc = "create_order_commit",
                !.order = Some([id |-> order_id]),
                !.now = Some(clock)]]
    /\ UNCHANGED <<products, inventory, orders, clock, seed, budget>>

\* main.py 237-247: the new OrderDB row.
NewOrderRow(order, product, now) ==
    [customer_name |-> order.customerName,
     customer_email |-> order.customerEmail,
     product_id |-> order.productId,
     product_name |-> product.name,
     quantity |-> order.quantity,
     status |-> "Pending",
     created_at |-> now,
     updated_at |-> now]

\* Mutant: the decrement ignores the requested quantity.
DecrementedQuantity_ByOne(loaded, quantity) == loaded.quantity - 1

\* main.py 252: inventory.quantity -= order.quantity, on the loaded object.
DecrementedQuantity(loaded, quantity) == loaded.quantity - quantity

\* The flush of a session's change to a loaded inventory object:
\* UPDATE inventory SET quantity = <new value> WHERE id = <pk>, emitted only
\* when the attribute's value changed.  "stale" when the row is gone
\* (StaleDataError), else the table after the statement.
FlushInventory(table, product_id, loaded, quantity) ==
    IF quantity = loaded.quantity THEN table
    ELSE [table EXCEPT ![product_id].quantity = quantity]

InventoryStale(table, product_id, loaded, quantity) ==
    /\ quantity # loaded.quantity
    /\ \/ product_id \notin DOMAIN table
       \/ table[product_id].id # loaded.id

\* Mutant: the order is committed before the inventory is decremented, and
\* the decrement is lost.
CreateOrderWrites_OrderOnly(s, order_id, now) ==
    /\ orders' = Insert(orders, order_id,
                    NewOrderRow(Get(ParseBody(Get(sess[s].req))),
                        Get(sess[s].product), now))
    /\ inventory' = inventory

\* The writes db.commit() persists for create_order, as one transaction.
CreateOrderWrites(s, order_id, now) ==
    LET order == Get(ParseBody(Get(sess[s].req)))
        loaded == Get(sess[s].inventory)
    IN  /\ orders' = Insert(orders, order_id,
                        NewOrderRow(order, Get(sess[s].product), now))
        /\ inventory' = FlushInventory(inventory, order.productId, loaded,
                            DecrementedQuantity(loaded, order.quantity))

\* Mutant: the new order is merged into the table, replacing an order
\* that has the generated id.
create_order_commit_Merge(s) ==
    /\ sess[s].pc = "create_order_commit"
    /\ LET order == Get(ParseBody(Get(sess[s].req)))
           loaded == Get(sess[s].inventory)
           order_id == Get(sess[s].order).id
       IN  IF InventoryStale(inventory, order.productId, loaded,
                       DecrementedQuantity(loaded, order.quantity))
           THEN /\ Respond(s, InternalServerError("StaleDataError"))
                /\ UNCHANGED <<inventory, orders>>
           ELSE /\ orders' = Insert(Delete(orders, order_id), order_id,
                       NewOrderRow(order, Get(sess[s].product),
                           Get(sess[s].now)))
                /\ inventory' = FlushInventory(inventory, order.productId,
                       loaded, DecrementedQuantity(loaded, order.quantity))
                /\ sess' = [sess EXCEPT ![s] =
                       [@ EXCEPT !.pc = "create_order_refresh"]]
    /\ UNCHANGED <<products, clock, seed, budget>>

\* The exceptions the flush of create_order can raise on store `table_o`
\* (orders) and `table_i` (inventory): the INSERT fails on a primary key
\* already in orders (IntegrityError), the UPDATE on a vanished row
\* (StaleDataError).  The session holds no dependency between the two
\* objects, so which statement the unit of work emits first, and so which
\* error is raised when both would fail, is left to the library version.
CreateOrderFlushErrors(s, order_id) ==
    LET order == Get(sess[s].req)
        loaded == Get(sess[s].inventory)
    IN  {error \in {"IntegrityError", "StaleDataError"} :
            \/ error = "IntegrityError" /\ order_id \in DOMAIN orders
            \/ /\ error = "StaleDataError"
               /\ InventoryStale(inventory, order.productId, loaded,
                      DecrementedQuantity(loaded, order.quantity))}

\* main.py 254: db.commit() flushes the INSERT of the order and the UPDATE
\* of the inventory row and commits them together.  When a statement of
\* the flush fails the request dies with a 500 and get_db closes the
\* session, which rolls back.
create_order_commit(s) ==
    /\ sess[s].pc = "create_order_commit"
    /\ LET order_id == Get(sess[s].order).id IN
       IF CreateOrderFlushErrors(s, order_id) # {}
       THEN /\ \E error \in CreateOrderFlushErrors(s, order_id) :
                    Respond(s, InternalServerError(error))
            /\ UNCHANGED <<inventory, orders>>
       ELSE /\ CreateOrderWrites(s, order_id, Get(sess[s].now))
            /\ sess' = [sess EXCEPT ![s] =
                   [@ EXCEPT !.pc = "create_order_refresh"]]
    /\ UNCHANGED <<products, clock, seed, budget>>

\* main.py 255-267: db.refresh(new_order) reloads the row and the order is
\* returned (201); the refresh raises when the row is gone.
create_order_refresh(s) ==
    /\ sess[s].pc = "create_order_refresh"
    /\ LET order_id == Get(sess[s].order).id IN
       IF order_id \notin DOMAIN orders
       THEN Respond(s, InternalServerError("InvalidRequestError"))
       ELSE Respond(s, [status_code |-> 201,
                        detail |-> Order(order_id, orders[order_id])])
    /\ UNCHANGED <<products, inventory, orders, clock, seed, budget>>

\* ------------------------------------------------------------ cancel_order
\* main.py 345-353: the order is queried; 404 when it does not exist.
cancel_order_start(s, order_id) ==
    /\ sess[s].pc = "idle"
    /\ IF order_id \notin DOMAIN orders
       THEN sess' = [sess EXCEPT ![s] =
                [IdleSession EXCEPT !.pc = "done", !.op = "cancel_order",
                    !.req = Some([order_id |-> order_id]),
                    !.resp = Some(HTTPException(404,
                        [error |-> "NotFound", what |-> "Order",
                         id |-> order_id]))]]
       ELSE sess' = [sess EXCEPT ![s] =
                [IdleSession EXCEPT !.pc = "cancel_order_inventory",
                    !.op = "cancel_order",
                    !.req = Some([order_id |-> order_id]),
                    !.order = Some(orders[order_id])]]
    /\ Admit
    /\ UNCHANGED <<products, inventory, orders, clock, seed>>

\* main.py 355-356: the inventory row of the order's product is queried.
cancel_order_inventory(s) ==
    /\ sess[s].pc = "cancel_order_inventory"
    /\ LET product_id == Get(sess[s].order).product_id IN
       sess' = [sess EXCEPT ![s] =
            [@ EXCEPT !.pc = "cancel_order_commit",
                !.inventory = IF product_id \in DOMAIN inventory
                              THEN Some(inventory[product_id]) ELSE None]]
    /\ UNCHANGED <<products, inventory, orders, clock, seed, budget>>

\* Mutant: the cancelled quantity is not given back.
RestoredQuantity_NotRestored(loaded, quantity) == loaded.quantity

\* main.py 358: inventory.quantity += order.quantity, on the loaded object.
RestoredQuantity(loaded, quantity) == loaded.quantity + quantity

\* Mutant: a missing inventory record is re-created with the cancelled
\* quantity.
CancelOrderWrites_Upsert(s) ==
    LET order == Get(sess[s].order)
        order_id == Get(sess[s].req).order_id
    IN  /\ orders' = Delete(orders, order_id)
        /\ inventory' =
            IF IsSome(sess[s].inventory)
            THEN FlushInventory(inventory, order.product_id,
                    Get(sess[s].inventory),
                    RestoredQuantity(Get(sess[s].inventory), order.quantity))
            ELSE Insert(inventory, order.product_id,
                    [id |-> order.product_id,
                     product_name |-> order.product_name,
                     quantity |-> order.quantity, price |-> 0])

\* The writes db.commit() persists for cancel_order, as one transaction.
\* DELETE FROM orders WHERE id = <pk> matching no row is only warned about.
CancelOrderWrites(s) ==
    LET order == Get(sess[s].order)
        order_id == Get(sess[s].req).order_id
    IN  /\ orders' = Delete(orders, order_id)
        /\ inventory' =
            IF IsSome(sess[s].inventory)
            THEN FlushInventory(inventory, order.product_id,
                    Get(sess[s].inventory),
                    RestoredQuantity(Get(sess[s].inventory), order.quantity))
            ELSE inventory

\* main.py 357-364: the loaded inventory object (if any) is incremented,
\* the order deleted, and both are committed together.
cancel_order_commit(s) ==
    /\ sess[s].pc = "cancel_order_commit"
    /\ LET order == Get(sess[s].order)
           order_id == Get(sess[s].req).order_id
       IN  IF /\ IsSome(sess[s].inventory)
              /\ InventoryStale(inventory, order.product_id,
                    Get(sess[s].inventory),
                    RestoredQuantity(Get(sess[s].inventory), order.quantity))
           THEN /\ Respond(s, InternalServerError("StaleDataError"))
                /\ UNCHANGED <<inventory, orders>>
           ELSE /\ CancelOrderWrites(s)
                /\ Respond(s, [status_code |-> 200,
                        detail |-> [message |-> "cancelled",
                                    order_id |-> order_id]])
    /\ UNCHANGED <<products, clock, seed, budget>>

\* ----------------------------------------------------- update_order_status
\* main.py 310-322: the order is queried; 404 when it does not exist.
update_order_status_start(s, order_id, new_status) ==
    /\ sess[s].pc = "idle"
    /\ LET req == [order_id |-> order_id, new_status |-> new_status] IN
       IF order_id \notin DOMAIN orders
       THEN sess' = [sess EXCEPT ![s] =
                [IdleSession EXCEPT !.pc = "done",
                    !.op = "update_order_status", !.req = Some(req),
                    !.resp = Some(HTTPException(404,
                        [error |-> "NotFound", what |-> "Order",
                         id |-> order_id]))]]
       ELSE sess' = [sess EXCEPT ![s] =
                [IdleSession EXCEPT !.pc = "update_order_status_assign",
                    !.op = "update_order_status", !.req = Some(req),
                    !.order = Some(orders[order_id])]]
    /\ Admit
    /\ UNCHANGED <<products, inventory, orders, clock, seed>>

\* Mutant: a transition table that only lets the status move forward.
StatusRank(status) ==
    CASE status = "Pending" -> 0
      [] status = "Processing" -> 1
      [] status = "Shipped" -> 2
      [] status = "Delivered" -> 3
UpdatedOrderRow_ForwardOnly(loaded, new_status, now) ==
    [loaded EXCEPT
        !.status = IF StatusRank(new_status) >= StatusRank(@)
                   THEN new_status ELSE @,
        !.updated_at = now]

\* main.py 324-325: the loaded order after the two assignments.
UpdatedOrderRow(loaded, new_status, now) ==
    [loaded EXCEPT !.status = new_status, !.updated_at = now]

\* main.py 324-325: the time is read and status and updated_at are
\* assigned to the loaded order, in memory.
update_order_status_assign(s) ==
    /\ sess[s].pc = "update_order_status_assign"
    /\ sess' = [sess EXCEPT ![s] =
            [@ EXCEPT !.pc = "update_order_status_commit",
                !.now = Some(clock)]]
    /\ UNCHANGED <<products, inventory, orders, clock, seed, budget>>

\* Mutant: the UPDATE has no WHERE clause and rewrites every order.
FlushOrder_NoWhere(table, order_id, loaded, changed, now) ==
    [k \in DOMAIN table |->
        [table[k] EXCEPT !.status = changed.status,
                         !.updated_at = changed.updated_at]]

\* The flush of a session's change to a loaded order object: no statement
\* when no attribute has a new value, else UPDATE orders SET <changed
\* columns> WHERE id = <pk>.  updated_at is a changed column when the
\* assigned value differs from the loaded one; when it does not, the
\* column's onupdate=datetime.now supplies the time of the flush.
FlushOrder(table, order_id, loaded, changed, now) ==
    IF changed = loaded THEN table
    ELSE [table EXCEPT ![order_id] =
            [@ EXCEPT !.status = IF changed.status # loaded.status
                                 THEN changed.status ELSE @,
                      !.updated_at =
                            IF changed.updated_at # loaded.updated_at
                            THEN changed.updated_at ELSE now]]

\* Mutant: the loaded order is merged into the table, written back even
\* when its row has been deleted.
update_order_status_commit_Merge(s) ==
    /\ sess[s].pc = "update_order_status_commit"
    /\ LET req == Get(sess[s].req)
           loaded == Get(sess[s].order)
           changed == UpdatedOrderRow(loaded, req.new_status,
                           Get(sess[s].now))
       IN  /\ orders' = IF req.order_id \in DOMAIN orders
                        THEN FlushOrder(orders, req.order_id, loaded,
                                changed, clock)
                        ELSE Insert(orders, req.order_id, changed)
           /\ sess' = [sess EXCEPT ![s] =
                   [@ EXCEPT !.pc = "update_order_status_refresh"]]
    /\ UNCHANGED <<products, inventory, clock, seed, budget>>

\* main.py 327: db.commit() flushes the assignments and commits; the
\* UPDATE of a vanished row raises StaleDataError.
update_order_status_commit(s) ==
    /\ sess[s].pc = "update_order_status_commit"
    /\ LET req == Get(sess[s].req)
           loaded == Get(sess[s].order)
           changed == UpdatedOrderRow(loaded, req.new_status,
                           Get(sess[s].now))
       IN  IF changed # loaded /\ req.order_id \notin DOMAIN orders
           THEN /\ Respond(s, InternalServerError("StaleDataError"))
                /\ UNCHANGED orders
           ELSE /\ orders' = FlushOrder(orders, req.order_id, loaded,
                                changed, clock)
                /\ sess' = [sess EXCEPT ![s] =
                        [@ EXCEPT !.pc = "update_order_status_refresh"]]
    /\ UNCHANGED <<products, inventory, clock, seed, budget>>

\* main.py 328-343: db.refresh(order) reloads the row and the updated order
\* is returned (200); the refresh raises when the row is gone.
update_order_status_refresh(s) ==
    /\ sess[s].pc = "update_order_status_refresh"
    /\ LET req == Get(sess[s].req) IN
       IF req.order_id \notin DOMAIN orders
       THEN Respond(s, InternalServerError("InvalidRequestError"))
       ELSE Respond(s, [status_code |-> 200,
                detail |-> [message |-> "status updated",
                            order |-> Order(req.order_id, orders[req.order_id])]])
    /\ UNCHANGED <<products, inventory, orders, clock, seed, budget>>

\* ------------------------------------------------------------------ reads
\* A read request: one query, then the response.
ReadResponse(s, op, req, r) ==
    /\ sess' = [sess EXCEPT ![s] =
            [IdleSession EXCEPT !.pc = "done", !.op = op, !.req = Some(req),
                !.resp = Some(r)]]
    /\ Admit
    /\ UNCHANGED <<products, inventory, orders, clock, seed>>

NotFound(what, id) ==
    HTTPException(404, [error |-> "NotFound", what |-> what, id |-> id])

\* The pydantic model InventoryItem built from an InventoryDB row.
InventoryItem(product_id, row) ==
    [id |-> row.id, productId |-> product_id,
     productName |-> row.product_name, quantity |-> row.quantity,
     price |-> row.price]

\* The pydantic model Product built from a ProductDB row.
Product(id, row) ==
    [id |-> id, name |-> row.name, price |-> row.price,
     description |-> row.description]

\* main.py 158-162.
get_products(s) ==
    /\ sess[s].pc = "idle"
    /\ ReadResponse(s, "get_products", [all |-> TRUE],
           [status_code |-> 200,
            detail |-> {Product(id, products[id]) : id \in DOMAIN products}])

\* main.py 164-173.
get_product(s, product_id) ==
    /\ sess[s].pc = "idle"
    /\ ReadResponse(s, "get_product", [product_id |-> product_id],
           IF product_id \notin DOMAIN products
           THEN NotFound("Product", product_id)
           ELSE [status_code |-> 200,
                 detail |-> Product(product_id, products[product_id])])

\* main.py 175-188.
get_inventory(s) ==
    /\ sess[s].pc = "idle"
    /\ ReadResponse(s, "get_inventory", [all |-> TRUE],
           [status_code |-> 200,
            detail |-> {InventoryItem(p, inventory[p]) : p \in DOMAIN inventory}])

\* Mutant: a missing inventory record is created on first read.
get_inventory_item_GetOrCreate(s, product_id) ==
    /\ sess[s].pc = "idle"
    /\ LET row == [id |-> product_id, product_name |-> "", quantity |-> 0,
                   price |-> 0]
       IN  /\ inventory' = IF product_id \in DOMAIN inventory THEN inventory
                           ELSE Insert(inventory, product_id, row)
           /\ sess' = [sess EXCEPT ![s] =
                [IdleSession EXCEPT !.pc = "done",
                    !.op = "get_inventory_item",
                    !.req = Some([product_id |-> product_id]),
                    !.resp = Some([status_code |-> 200,
                        detail |-> InventoryItem(product_id,
                                        inventory'[product_id])])]]
    /\ Admit
    /\ UNCHANGED <<products, orders, clock, seed>>

\* main.py 190-205.
get_inventory_item(s, product_id) ==
    /\ sess[s].pc = "idle"
    /\ ReadResponse(s, "get_inventory_item", [product_id |-> product_id],
           IF product_id \notin DOMAIN inventory
           THEN NotFound("Inventory", product_id)
           ELSE [status_code |-> 200,
                 detail |-> InventoryItem(product_id, inventory[product_id])])

\* Mutant: an order that is not there is answered with 200 and no body.
GetOrderResponse_NullBody(table, order_id) ==
    IF order_id \notin DOMAIN table
    THEN [status_code |-> 200, detail |-> None]
    ELSE [status_code |-> 200, detail |-> Order(order_id, table[order_id])]

\* main.py 272-289: the response of get_order.
GetOrderResponse(table, order_id) ==
    IF order_id \notin DOMAIN table
    THEN NotFound("Order", order_id)
    ELSE [status_code |-> 200, detail |-> Order(order_id, table[order_id])]

\* main.py 269-289.
get_order(s, order_id) ==
    /\ sess[s].pc = "idle"
    /\ ReadResponse(s, "get_order", [order_id |-> order_id],
           GetOrderResponse(orders, order_id))

\* main.py 291-308.
get_all_orders(s) ==
    /\ sess[s].pc = "idle"
    /\ ReadResponse(s, "get_all_orders", [all |-> TRUE],
           [status_code |-> 200,
            detail |-> {Order(id, orders[id]) : id \in DOMAIN orders}])

\* ----------------------------------------------------------------- router
\* The routes as registered by the decorators (main.py 131-345): method
\* and path, the path cut into its pieces ("/" is a piece, "{}" a path
\* parameter).  Only "/" and "/health" are registered with a leading "/".
\* FastAPI(...) (main.py 100-104) adds the documentation routes by itself,
\* which also answer HEAD.
Routes ==
    {[method |-> "GET", path |-> <<"/", "openapi.json">>],
     [method |-> "HEAD", path |-> <<"/", "openapi.json">>],
     [method |-> "GET", path |-> <<"/", "docs">>],
     [method |-> "HEAD", path |-> <<"/", "docs">>],
     [method |-> "GET", path |-> <<"/", "docs", "/", "oauth2-redirect">>],
     [method |-> "HEAD", path |-> <<"/", "docs", "/", "oauth2-redirect">>],
     [method |-> "GET", path |-> <<"/", "redoc">>],
     [method |-> "HEAD", path |-> <<"/", "redoc">>],
     [method |-> "GET", path |-> <<"/">>],
     [method |-> "GET", path |-> <<"/", "health">>],
     [method |-> "GET", path |-> <<"products">>],
     [method |-> "GET", path |-> <<"products", "/", "{}">>],
     [method |-> "GET", path |-> <<"inventory">>],
     [method |-> "GET", path |-> <<"inventory", "/", "{}">>],
     [method |-> "POST", path |-> <<"orders">>],
     [method |-> "GET", path |-> <<"orders", "/", "{}">>],
     [method |-> "GET", path |-> <<"orders">>],
     [method |-> "PUT", path |-> <<"orders", "/", "{}", "/", "status">>],
     [method |-> "DELETE", path |-> <<"orders", "/", "{}">>]}

\* The route's path, as a regex, matches the whole of the request path.
\* A request path is cut into the pieces "/", "\n" (a newline is always a
\* piece of its own) and the words between them.  A literal piece matches
\* itself, a parameter, [^/]+, one or more pieces other than "/".
RECURSIVE PiecesMatch(_, _)
PiecesMatch(route_path, path) ==
    IF route_path = <<>> THEN path = <<>>
    ELSE IF Head(route_path) = "{}"
    THEN \E k \in 1..Len(path) :
            /\ \A i \in 1..k : path[i] # "/"
            /\ PiecesMatch(Tail(route_path), SubSeq(path, k + 1, Len(path)))
    ELSE /\ path # <<>>
         /\ Head(path) = Head(route_path)
         /\ PiecesMatch(Tail(route_path), Tail(path))

\* The route's path regex, "^...$", matches the request path: the whole
\* of it, or all but a newline at its end, before which "$" matches too.
PathMatches(route_path, path) ==
    \/ PiecesMatch(route_path, path)
    \/ /\ path # <<>>
       /\ path[Len(path)] = "\n"
       /\ PiecesMatch(route_path, SubSeq(path, 1, Len(path) - 1))

\* A route matches the request in full: path and method.
MatchFull(request) ==
    \E route \in Routes :
        /\ route.method = request.method
        /\ PathMatches(route.path, request.path)

\* A route matches the request's path, whatever its method.
MatchPath(path) ==
    \E route \in Routes : PathMatches(route.path, path)

\* path.rstrip("/").
RECURSIVE StripSlashes(_)
StripSlashes(path) ==
    IF path # <<>> /\ path[Len(path)] = "/"
    THEN StripSlashes(SubSeq(path, 1, Len(path) - 1))
    ELSE path

\* The path the router tries when redirect_slashes is on: without the
\* trailing slashes when there are any, else with one added.
RedirectPath(path) ==
    IF path # <<>> /\ path[Len(path)] = "/" THEN StripSlashes(path)
    ELSE Append(path, "/")

\* What the router answers when no route matches the request in full:
\* 405 when a route matches the path with another method, a redirect (307)
\* to the path with or without the trailing slash when a route matches
\* that path, else 404.
RouterResponse(request) ==
    IF MatchPath(request.path)
    THEN HTTPException(405, [error |-> "Method Not Allowed"])
    ELSE IF /\ request.path # <<"/">>
            /\ MatchPath(RedirectPath(request.path))
    THEN [status_code |-> 307,
          detail |-> [location |-> RedirectPath(request.path)]]
    ELSE HTTPException(404, [error |-> "Not Found"])

\* A request without headers of interest, and one with them.
NoHeaders == [name \in {} |-> ""]
Line(method, path) == [method |-> method, path |-> path, headers |-> NoHeaders]
PreflightLine(path, requested_method) ==
    [method |-> "OPTIONS", path |-> path,
     headers |-> [name \in {"origin", "access-control-request-method"} |->
                    IF name = "origin" THEN "http://localhost:3000"
                    ELSE requested_method]]

\* The request lines an HTTP client can send for the nine data routes (the
\* path of a request always starts with "/"), a POST to the root, a
\* health check with a trailing slash, and two CORS preflight requests.
HttpRequests ==
    {Line("GET", <<"/", "products">>),
     Line("GET", <<"/", "products", "/", "1">>),
     Line("GET", <<"/", "inventory">>),
     Line("GET", <<"/", "inventory", "/", "3">>),
     Line("POST", <<"/", "orders">>),
     Line("GET", <<"/", "orders", "/", "ORD-00000001">>),
     Line("GET", <<"/", "orders">>),
     Line("PUT", <<"/", "orders", "/", "ORD-00000001", "/", "status">>),
     Line("DELETE", <<"/", "orders", "/", "ORD-00000001">>),
     Line("POST", <<"/">>),
     Line("GET", <<"/", "health", "/">>),
     PreflightLine(<<"/", "orders">>, "POST"),
     PreflightLine(<<"/", "orders">>, "PROPFIND")}

\* main.py 107-113: CORSMiddleware with allow_methods=["*"].
AllowMethods == {"DELETE", "GET", "HEAD", "OPTIONS", "PATCH", "POST", "PUT"}

\* The request is a CORS preflight: the middleware answers it itself.
Preflight(request) ==
    /\ request.method = "OPTIONS"
    /\ "origin" \in DOMAIN request.headers
    /\ "access-control-request-method" \in DOMAIN request.headers

\* main.py 107-113: the middleware answers a preflight request before the
\* router sees it: 200 "OK", or 400 when the requested method is not one
\* it allows (every origin and every header is allowed).
cors_preflight(s, request) ==
    /\ sess[s].pc = "idle"
    /\ Preflight(request)
    /\ sess' = [sess EXCEPT ![s] =
            [IdleSession EXCEPT !.pc = "done", !.op = "cors",
                !.resp = Some(
                    IF request.headers["access-control-request-method"]
                            \in AllowMethods
                    THEN [status_code |-> 200, detail |-> [text |-> "OK"]]
                    ELSE [status_code |-> 400, detail |->
                            [text |-> "Disallowed CORS method"]])]]
    /\ Admit
    /\ UNCHANGED <<products, inventory, orders, clock, seed>>

\* No route matches the request in full: the router answers (405, 307 or
\* 404 "Not Found") before get_db or any handler runs.
route_not_found(s, request) ==
    /\ sess[s].pc = "idle"
    /\ ~Preflight(request)
    /\ ~MatchFull(request)
    /\ sess' = [sess EXCEPT ![s] =
            [IdleSession EXCEPT !.pc = "done", !.op = "router",
                !.resp = Some(RouterResponse(request))]]
    /\ Admit
    /\ UNCHANGED <<products, inventory, orders, clock, seed>>

\* ----------------------------------------------------------------- get_db
\* The positions at which a handler's next step is a statement sent to
\* the store.
StatementSteps ==
    {"create_order_inventory", "create_order_commit", "create_order_refresh",
     "cancel_order_inventory", "cancel_order_commit",
     "update_order_status_commit", "update_order_status_refresh"}

\* A statement or the commit raises (the store is unreachable, the
\* connection drops): the handler is left with a 500 and nothing it has
\* not committed is persisted.
store_error(s) ==
    /\ sess[s].pc \in StatementSteps
    /\ Respond(s, InternalServerError("OperationalError"))
    /\ UNCHANGED <<products, inventory, orders, clock, seed, budget>>

\* The first statement of a handler raises: the request that reached
\* handler op with input req ends with a 500 before anything is loaded.
store_error_first(s, op, req) ==
    /\ sess[s].pc = "idle"
    /\ sess' = [sess EXCEPT ![s] =
            [IdleSession EXCEPT !.pc = "done", !.op = op, !.req = Some(req),
                !.resp = Some(InternalServerError("OperationalError"))]]
    /\ Admit
    /\ UNCHANGED <<products, inventory, orders, clock, seed>>

\* main.py 117-122: get_db's finally closes the session once the response
\* is out (rolling back whatever was not committed).
get_db_close(s) ==
    /\ sess[s].pc = "done"
    /\ sess' = [sess EXCEPT ![s] = IdleSession]
    /\ UNCHANGED <<products, inventory, orders, clock, seed, budget>>

\* The value datetime.now() returns changes.  It is the host's naive local
\* time: it goes back at the end of daylight-saving time and when the
\* system clock is set back.
Tick ==
    /\ \E now \in 0..MaxClock :
        /\ now # clock
        /\ clock' = now
    /\ UNCHANGED <<products, inventory, orders, sess, seed, budget>>

\* ------------------------------------------------------------------ specs
\* The request lines with a method other than GET.
WriteRequests == {request \in HttpRequests : request.method # "GET"}

\* A request for create_order, cancel_order or update_order_status arrives
\* on slot s: it reaches the handler when its path is the registered one,
\* and the handler's first statement runs or raises; with a path that
\* starts with "/" it ends in the router, and a preflight request in the
\* CORS middleware.
Request(s, bodies, statuses) ==
    \/ \E order \in bodies : create_order_start(s, order)
    \/ \E order_id \in OrderIds : cancel_order_start(s, order_id)
    \/ \E order_id \in OrderIds, new_status \in statuses :
            update_order_status_start(s, order_id, new_status)
    \/ \E order \in {body \in bodies : IsSome(ParseBody(body))} :
            store_error_first(s, "create_order", order)
    \/ \E order_id \in OrderIds :
            store_error_first(s, "cancel_order", [order_id |-> order_id])
    \/ \E order_id \in OrderIds, new_status \in statuses :
            store_error_first(s, "update_order_status",
                [order_id |-> order_id, new_status |-> new_status])
    \/ \E request \in WriteRequests : cors_preflight(s, request)
    \/ \E request \in WriteRequests : route_not_found(s, request)

\* A request in progress takes its next step.
Step(s) ==
    \/ create_order_inventory(s)
    \/ create_order_add(s)
    \/ create_order_commit(s)
    \/ create_order_refresh(s)
    \/ cancel_order_inventory(s)
    \/ cancel_order_commit(s)
    \/ update_order_status_assign(s)
    \/ update_order_status_commit(s)
    \/ update_order_status_refresh(s)
    \/ store_error(s)
    \/ get_db_close(s)

\* Requests served one at a time.
Next ==
    \/ init_database(1)
    \/ Request(1, OrderCreateRequests, OrderStatusEnum)
    \/ Step(1)

Spec == Init /\ [][Next]_vars

\* The store after init_database has run, with MaxRequests requests to come.
InitSeeded ==
    /\ budget = Some(MaxRequests)
    /\ products = SeedProducts
    /\ inventory = SeedInventory
    /\ orders = EmptyTable
    /\ clock = 0
    /\ sess = [s \in Sessions |-> IdleSession]
    /\ seed = [r \in SeedRuns |-> IdleRun]

\* The requests tried when requests overlap: valid orders of 5 Laptops or
\* 5 Keyboards, cancellations, and status updates to two of the statuses.
ConcurrentCreateRequests ==
    {order \in OrderCreateRequests :
        /\ order.productId \in DOMAIN SeedProducts
        /\ order.quantity = 5
        /\ IsSome(ParseBody(order))}
ConcurrentStatuses == {"Pending", "Shipped"}

\* Requests served in parallel, each in its own session; their statements
\* interleave.
NextConcurrent ==
    \E s \in Sessions :
        \/ Request(s, ConcurrentCreateRequests, ConcurrentStatuses)
        \/ Step(s)

SpecConcurrent == InitSeeded /\ [][NextConcurrent]_vars

\* ----------------------------------------------------------- timed store
\* A read request arrives on slot s.
Read(s) ==
    \/ get_products(s)
    \/ \E product_id \in RequestProductIds : get_product(s, product_id)
    \/ get_inventory(s)
    \/ \E product_id \in RequestProductIds : get_inventory_item(s, product_id)
    \/ \E order_id \in OrderIds : get_order(s, order_id)
    \/ get_all_orders(s)
    \/ \E op \in {"get_products", "get_inventory", "get_all_orders"} :
            store_error_first(s, op, [all |-> TRUE])
    \/ \E op \in {"get_product", "get_inventory_item"},
            product_id \in RequestProductIds :
            store_error_first(s, op, [product_id |-> product_id])
    \/ \E order_id \in OrderIds :
            store_error_first(s, "get_order", [order_id |-> order_id])
    \/ \E request \in HttpRequests \ WriteRequests :
            route_not_found(s, request)

\* MaxRequests requests, reads included, served one at a time on the
\* seeded store while the clock changes.
NextTimed ==
    \/ Tick
    \/ Request(1, ConcurrentCreateRequests, OrderStatusEnum)
    \/ Read(1)
    \/ Step(1)

SpecTimed == InitSeeded /\ [][NextTimed]_vars

\* ----------------------------------------------------- external removals
\* The tables carry no foreign keys: another client of the database can
\* remove a product row or an inventory row on its own.
external_delete_product(p) ==
    /\ p \in DOMAIN products
    /\ products' = Delete(products, p)
    /\ UNCHANGED <<inventory, orders, clock, sess, seed, budget>>

external_delete_inventory(p) ==
    /\ p \in DOMAIN inventory
    /\ inventory' = Delete(inventory, p)
    /\ UNCHANGED <<products, orders, clock, sess, seed, budget>>

\* The rows removed from outside, and the requests tried around them.
ExternalProductIds == {3}
ExternalCreateRequests ==
    {order \in OrderCreateRequests : IsSome(ParseBody(order))}
ExternalStatuses == {"Shipped"}

\* Requests served one at a time on a store whose rows are also removed
\* from outside.
NextExternal ==
    \/ init_database(1)
    \/ \E p \in ExternalProductIds : external_delete_product(p)
    \/ \E p \in ExternalProductIds : external_delete_inventory(p)
    \/ Request(1, ExternalCreateRequests, ExternalStatuses)
    \/ Step(1)

SpecExternal == Init /\ [][NextExternal]_vars

\* ------------------------------------------------------- overlapping seeding
\* The statuses tried while the script runs.
SeedingStatuses == {"Shipped"}

\* Requests served one at a time while up to two runs of init_db.py are
\* in progress, their statements interleaved with each other's and with
\* the requests'.
NextSeeding ==
    \/ \E r \in SeedRuns : init_database(r)
    \/ Request(1, ConcurrentCreateRequests, SeedingStatuses)
    \/ Step(1)

SpecSeeding == Init /\ [][NextSeeding]_vars

\* ================================================================ claims
\* The sum of the quantities of the rows of `table` for product p.
RECURSIVE SumQuantities(_, _, _)
SumQuantities(table, keys, p) ==
    IF keys = {} THEN 0
    ELSE LET k == CHOOSE k \in keys : TRUE IN
         (IF table[k].product_id = p THEN table[k].quantity ELSE 0)
            + SumQuantities(table, keys \ {k}, p)
OrderedQuantity(p) == SumQuantities(orders, DOMAIN orders, p)

Quiescent == \A s \in Sessions : sess[s].pc \in {"idle", "done"}
Responded(s, code) ==
    /\ sess[s].pc = "done"
    /\ Get(sess[s].resp).status_code = code

\* C1: with requests served one at a time, every inventory quantity equals
\* the seeded quantity minus the quantities of the orders that exist for
\* the product, in every state and whatever succeeded or failed.
C1_Conservation ==
    \A p \in DOMAIN inventory :
        inventory[p].quantity = SeedInventory[p].quantity - OrderedQuantity(p)

\* C1 witness: an order of 5 Keyboards exists, 3 are left, and a
\* cancellation of another order has just succeeded.
C1_Witness ==
    /\ sess[1].op = "cancel_order"
    /\ Responded(1, 200)
    /\ inventory[3].quantity = 3
    /\ \E id \in DOMAIN orders :
        orders[id].product_id = 3 /\ orders[id].quantity = 5

\* C2: no inventory quantity is ever negative.
C2_InventoryNonNegative ==
    \A p \in DOMAIN inventory : inventory[p].quantity >= 0

\* C3: with overlapping requests, the orders that exist for a product never
\* add up to more than the stock seeded for it (every order here is for a
\* positive quantity).
C3_NoOverSubscription ==
    \A p \in DOMAIN inventory :
        OrderedQuantity(p) <= SeedInventory[p].quantity

\* C4: with overlapping requests, once every request has finished the
\* inventory quantity equals the seeded quantity minus the quantities of
\* the existing orders: no committed decrement or increment is lost.
C4_ConcurrentConservation ==
    Quiescent =>
        \A p \in DOMAIN inventory :
            inventory[p].quantity
                = SeedInventory[p].quantity - OrderedQuantity(p)

StoreFailed(s) ==
    Get(sess'[s].resp) = InternalServerError("OperationalError")
TablesUnchanged ==
    /\ products' = products
    /\ inventory' = inventory
    /\ orders' = orders

\* C5: when create_order finds fewer in stock than requested, the request
\* ends with the 400 naming the quantity in stock as available and the
\* requested quantity as requested (or with a store failure), and neither
\* inventory nor orders change.
C5_InsufficientInventory ==
    [][\A s \in Sessions :
        LET order == Get(sess[s].req) IN
        ( /\ sess[s].pc = "create_order_inventory"
          /\ sess'[s] # sess[s]
          /\ order.productId \in DOMAIN inventory
          /\ order.quantity > inventory[order.productId].quantity )
        => /\ sess'[s].pc = "done"
           /\ \/ StoreFailed(s)
              \/ Get(sess'[s].resp) =
                    [status_code |-> 400,
                     detail |-> [error |-> "InsufficientInventory",
                        available |-> inventory[order.productId].quantity,
                        requested |-> order.quantity]]
           /\ TablesUnchanged]_vars

\* C5 witness: after an order of 5 Keyboards, a second order of 5 was
\* refused with available 3, requested 5, and 3 are still in stock.
C5_Witness ==
    /\ sess[1].op = "create_order"
    /\ Responded(1, 400)
    /\ Get(sess[1].resp).detail.available = 3
    /\ Get(sess[1].resp).detail.requested = 5
    /\ inventory[3].quantity = 3
    /\ Cardinality(DOMAIN orders) = 1

\* C6: cancel_order goes ahead on every existing order whatever its status,
\* its commit deletes the order and raises the product's inventory quantity
\* by exactly the order's quantity, and on an id that is not (or no longer)
\* in orders it ends with 404 and changes nothing (a statement the store
\* fails ends the request with a 500 and changes nothing either).
C6_CancelRestores ==
    [][\A s \in Sessions :
        /\ ( sess[s].pc = "idle" /\ sess'[s].op = "cancel_order" ) =>
            LET order_id == Get(sess'[s].req).order_id IN
            /\ TablesUnchanged
            /\ \/ sess'[s].pc = "done" /\ StoreFailed(s)
               \/ IF order_id \in DOMAIN orders
                  THEN sess'[s].pc = "cancel_order_inventory"
                  ELSE /\ sess'[s].pc = "done"
                       /\ Get(sess'[s].resp) =
                           [status_code |-> 404,
                            detail |-> [error |-> "NotFound",
                                        what |-> "Order", id |-> order_id]]
        /\ ( sess[s].pc = "cancel_order_inventory" /\ sess'[s] # sess[s] ) =>
            /\ TablesUnchanged
            /\ \/ sess'[s].pc = "cancel_order_commit"
               \/ sess'[s].pc = "done" /\ StoreFailed(s)
        /\ ( sess[s].pc = "cancel_order_commit" /\ sess'[s] # sess[s] ) =>
            LET order_id == Get(sess[s].req).order_id IN
            /\ sess'[s].pc = "done"
            /\ \/ StoreFailed(s) /\ TablesUnchanged
               \/ /\ Get(sess'[s].resp).status_code = 200
                  /\ order_id \in DOMAIN orders
                  /\ orders' = Delete(orders, order_id)
                  /\ inventory' =
                        [inventory EXCEPT
                            ![orders[order_id].product_id].quantity =
                                @ + orders[order_id].quantity]]_vars

\* C6 witness: a Delivered order of 5 Keyboards was cancelled; the order
\* is gone and all 8 Keyboards are back.
C6_Witness ==
    /\ sess[1].op = "cancel_order"
    /\ Responded(1, 200)
    /\ Get(sess[1].order).status = "Delivered"
    /\ Get(sess[1].order).quantity = 5
    /\ Get(sess[1].req).order_id \notin DOMAIN orders
    /\ inventory[3].quantity = 8

\* C7: a create_order with quantity <= 0 never ends with 201 and no order
\* with a quantity <= 0 is ever stored.
C7_NonPositiveQuantityCreatesNoOrder ==
    /\ \A id \in DOMAIN orders : orders[id].quantity > 0
    /\ \A s \in Sessions :
        ( /\ sess[s].op = "create_order"
          /\ sess[s].pc = "done"
          /\ Get(sess[s].req).quantity <= 0 )
        => Get(sess[s].resp).status_code # 201

\* C8: every step that adds an order row also lowers the product's
\* inventory quantity by the order's quantity, every step that removes one
\* raises it by the order's quantity, and no other step changes an
\* inventory quantity or the set of orders (seeding apart): a request that
\* fails before or at its commit leaves both as they were.
C8_Atomicity ==
    [][\/ /\ DOMAIN orders' = DOMAIN orders
          /\ inventory' = inventory
       \/ /\ orders' = orders
          /\ products = EmptyTable
          /\ inventory' = SeedInventory
       \/ \E id \in DOMAIN orders' \ DOMAIN orders :
            /\ orders' = Insert(orders, id, orders'[id])
            /\ inventory' =
                [inventory EXCEPT ![orders'[id].product_id].quantity =
                    @ - orders'[id].quantity]
       \/ \E id \in DOMAIN orders \ DOMAIN orders' :
            /\ orders' = Delete(orders, id)
            /\ inventory' =
                [inventory EXCEPT ![orders[id].product_id].quantity =
                    @ + orders[id].quantity]]_vars

\* C8 witness: a create_order for 5 Keyboards that had passed every check
\* failed at its commit; no order row and no decrement are persisted.
C8_Witness ==
    /\ sess[1].op = "create_order"
    /\ Responded(1, 500)
    /\ IsSome(sess[1].inventory)
    /\ IsSome(sess[1].now)
    /\ Get(sess[1].req).quantity = 5
    /\ orders = EmptyTable
    /\ inventory = SeedInventory

\* C9: create_order on a productId with no product row ends with the 404
\* for the product (or a store failure), whether or not an inventory row
\* exists; on a product
\* with no inventory row it ends with the 404 for the inventory (or a store
\* failure) whatever the quantity; neither changes a table.
C9_NotFoundOrder ==
    [][\A s \in Sessions :
        /\ ( /\ sess[s].pc = "idle"
             /\ sess'[s].op = "create_order"
             /\ IsSome(ParseBody(Get(sess'[s].req)))
             /\ Get(sess'[s].req).productId \notin DOMAIN products ) =>
            /\ sess'[s].pc = "done"
            /\ \/ StoreFailed(s)
               \/ Get(sess'[s].resp) =
                    [status_code |-> 404,
                     detail |-> [error |-> "NotFound", what |-> "Product",
                                 id |-> Get(sess'[s].req).productId]]
            /\ TablesUnchanged
        /\ ( /\ sess[s].pc = "create_order_inventory"
             /\ sess'[s] # sess[s]
             /\ Get(sess[s].req).productId \notin DOMAIN inventory ) =>
            /\ sess'[s].pc = "done"
            /\ \/ StoreFailed(s)
               \/ Get(sess'[s].resp) =
                    [status_code |-> 404,
                     detail |-> [error |-> "NotFound", what |-> "Inventory",
                                 id |-> Get(sess[s].req).productId]]
            /\ TablesUnchanged]_vars

\* C9 witness: the Keyboard's product row is gone while its inventory row
\* is still there, and an order for it ended with the 404 for the product.
C9_Witness ==
    /\ sess[1].op = "create_order"
    /\ Responded(1, 404)
    /\ Get(sess[1].resp).detail.what = "Product"
    /\ Get(sess[1].req).productId \in DOMAIN inventory
    /\ Get(sess[1].req).productId \notin DOMAIN products

\* C10: every order row enters the table with status Pending, and
\* update_order_status on an existing order goes ahead whatever the current
\* and the new status are, stores the new status and returns it (unless
\* the store fails a statement, which ends the request with a 500).
C10_StatusMachine ==
    [][/\ \A id \in DOMAIN orders' \ DOMAIN orders :
            orders'[id].status = "Pending"
       /\ \A s \in Sessions :
            /\ ( /\ sess[s].pc = "idle"
                 /\ sess'[s].op = "update_order_status"
                 /\ Get(sess'[s].req).order_id \in DOMAIN orders ) =>
                \/ sess'[s].pc = "update_order_status_assign"
                \/ sess'[s].pc = "done" /\ StoreFailed(s)
            /\ ( /\ sess[s].pc = "update_order_status_assign"
                 /\ sess'[s] # sess[s] ) =>
                sess'[s].pc = "update_order_status_commit"
            /\ ( /\ sess[s].pc = "update_order_status_commit"
                 /\ sess'[s] # sess[s] ) =>
                LET req == Get(sess[s].req) IN
                \/ sess'[s].pc = "done" /\ StoreFailed(s) /\ orders' = orders
                \/ /\ sess'[s].pc = "update_order_status_refresh"
                   /\ DOMAIN orders' = DOMAIN orders
                   /\ orders'[req.order_id].status = req.new_status
            /\ ( /\ sess[s].pc = "update_order_status_refresh"
                 /\ sess'[s] # sess[s] ) =>
                LET req == Get(sess[s].req) IN
                /\ sess'[s].pc = "done"
                /\ \/ StoreFailed(s)
                   \/ /\ Get(sess'[s].resp).status_code = 200
                      /\ Get(sess'[s].resp).detail.order.status
                            = req.new_status
                      /\ orders[req.order_id].status = req.new_status]_vars

\* C10 witness: a Delivered order was set back to Pending.
C10_Witness ==
    /\ sess[1].op = "update_order_status"
    /\ Responded(1, 200)
    /\ Get(sess[1].order).status = "Delivered"
    /\ Get(sess[1].req).new_status = "Pending"
    /\ orders[Get(sess[1].req).order_id].status = "Pending"

\* C11: update_order_status to the status the order already has goes
\* ahead, answers 200 with that status (unless the store fails a
\* statement), and changes nothing in the store but the order's
\* updated_at, which advances or stays and never goes back.
C11_UpdateIdempotent ==
    [][\A s \in Sessions :
        /\ ( /\ sess[s].pc = "idle"
             /\ sess'[s].op = "update_order_status"
             /\ Get(sess'[s].req).order_id \in DOMAIN orders
             /\ orders[Get(sess'[s].req).order_id].status
                    = Get(sess'[s].req).new_status ) =>
            /\ \/ sess'[s].pc = "update_order_status_assign"
               \/ sess'[s].pc = "done" /\ StoreFailed(s)
            /\ TablesUnchanged
        /\ ( /\ sess[s].pc = "update_order_status_commit"
             /\ sess'[s] # sess[s]
             /\ Get(sess[s].req).order_id \in DOMAIN orders
             /\ orders[Get(sess[s].req).order_id].status
                    = Get(sess[s].req).new_status ) =>
            LET id == Get(sess[s].req).order_id IN
            /\ products' = products
            /\ inventory' = inventory
            /\ \/ sess'[s].pc = "done" /\ StoreFailed(s) /\ orders' = orders
               \/ /\ sess'[s].pc = "update_order_status_refresh"
                  /\ id \in DOMAIN orders'
                  /\ orders'[id].updated_at >= orders[id].updated_at
                  /\ orders' = [orders EXCEPT
                        ![id].updated_at = orders'[id].updated_at]
        /\ ( /\ sess[s].pc = "update_order_status_refresh"
             /\ sess'[s] # sess[s]
             /\ Get(sess[s].order).status = Get(sess[s].req).new_status ) =>
            /\ TablesUnchanged
            /\ sess'[s].pc = "done"
            /\ \/ StoreFailed(s)
               \/ /\ Get(sess'[s].resp).status_code = 200
                  /\ Get(sess'[s].resp).detail.order.status
                        = Get(sess[s].req).new_status]_vars

\* C12: the order a successful create_order returns carries the submitted
\* customerName, customerEmail, productId and quantity unchanged, the
\* catalog name of the product, status Pending and createdAt = updatedAt,
\* and it is the order stored under the returned id; get_order with the
\* id of a stored order returns that stored order (unless the store fails
\* its query).
C12_CreatedOrderRoundTrip ==
    [][\A s \in Sessions :
        /\ ( /\ sess[s].pc = "create_order_refresh"
             /\ sess'[s] # sess[s]
             /\ Get(sess'[s].resp).status_code # 500 ) =>
            LET req == Get(sess[s].req)
                o == Get(sess'[s].resp).detail
            IN  /\ Get(sess'[s].resp).status_code = 201
                /\ o.customerName = req.customerName
                /\ o.customerEmail = req.customerEmail
                /\ o.productId = req.productId
                /\ o.quantity = req.quantity
                /\ o.productName = products[req.productId].name
                /\ o.status = "Pending"
                /\ o.createdAt = o.updatedAt
                /\ o.id \in DOMAIN orders'
                /\ orders'[o.id] =
                      [customer_name |-> o.customerName,
                       customer_email |-> o.customerEmail,
                       product_id |-> o.productId,
                       product_name |-> o.productName,
                       quantity |-> o.quantity,
                       status |-> o.status,
                       created_at |-> o.createdAt,
                       updated_at |-> o.updatedAt]
        /\ ( /\ sess[s].pc = "idle"
             /\ sess'[s].op = "get_order"
             /\ Get(sess'[s].req).order_id \in DOMAIN orders ) =>
            LET id == Get(sess'[s].req).order_id
                o == Get(sess'[s].resp).detail
            IN  \/ StoreFailed(s)
                \/ /\ Get(sess'[s].resp).status_code = 200
                   /\ o = [id |-> id,
                           customerName |-> orders[id].customer_name,
                           customerEmail |-> orders[id].customer_email,
                           productId |-> orders[id].product_id,
                           productName |-> orders[id].product_name,
                           quantity |-> orders[id].quantity,
                           status |-> orders[id].status,
                           createdAt |-> orders[id].created_at,
                           updatedAt |-> orders[id].updated_at]]_vars

\* C13: get_order and update_order_status on an id that is not stored
\* answer 404 NotFound for that order id (500 when the store fails the
\* query) and leave products, inventory
\* and orders unchanged; no step of update_order_status adds an order.
C13_UnknownOrderNotFound ==
    [][\A s \in Sessions :
        /\ ( /\ sess[s].pc = "idle"
             /\ sess'[s].op \in {"get_order", "update_order_status"}
             /\ Get(sess'[s].req).order_id \notin DOMAIN orders ) =>
            /\ sess'[s].pc = "done"
            /\ \/ StoreFailed(s)
               \/ Get(sess'[s].resp) =
                     [status_code |-> 404,
                      detail |-> [error |-> "NotFound", what |-> "Order",
                                  id |-> Get(sess'[s].req).order_id]]
            /\ TablesUnchanged
        /\ ( /\ sess'[s] # sess[s]
             /\ \/ sess'[s].op = "update_order_status"
                \/ sess[s].op = "update_order_status" /\ sess[s].pc # "done" )
            => DOMAIN orders' = DOMAIN orders]_vars

\* C13 witness: get_order answered 404 for an id that is not stored while
\* another order is.
C13_Witness ==
    /\ sess[1].op = "get_order"
    /\ Responded(1, 404)
    /\ Get(sess[1].req).order_id \notin DOMAIN orders
    /\ DOMAIN orders # {}

\* C14: no API operation creates, changes or deletes a product, and the
\* read operations (get_products, get_product, get_inventory,
\* get_inventory_item, get_order, get_all_orders) leave products,
\* inventory and orders unchanged, whether they answer 200 or 404 (or
\* 500 because the store failed the query).
ReadOperations ==
    {"get_products", "get_product", "get_inventory", "get_inventory_item",
     "get_order", "get_all_orders"}
C14_ReadsChangeNothing ==
    [][/\ products' = products
       /\ \A s \in Sessions :
            ( /\ sess[s].pc = "idle"
              /\ sess'[s].op \in ReadOperations ) =>
                /\ TablesUnchanged
                /\ sess'[s].pc = "done"
                /\ \/ Get(sess'[s].resp).status_code \in {200, 404}
                   \/ StoreFailed(s)]_vars

\* C14 witness: a read answered 404 in a store that holds an order and a
\* decremented stock, and the catalog is still the seeded one.
C14_Witness ==
    /\ sess[1].op = "get_inventory_item"
    /\ Responded(1, 404)
    /\ DOMAIN orders # {}
    /\ inventory[3].quantity = 3
    /\ products = SeedProducts

\* C15: a run of init_database that finds no product inserts the five
\* seed products and one inventory record per product in one commit, and
\* touches no order; no step of a run changes anything in a store that
\* has products, whether the run skips (it counted them) or fails (they
\* were inserted after it counted): quantities decremented since the
\* seeding stay decremented.
C15_SeedsOnce ==
    [][\A r \in SeedRuns :
        /\ ( seed[r].pc = "idle" /\ seed'[r] # seed[r] ) =>
            /\ TablesUnchanged
            /\ seed'[r].outcome # "seeded"
            /\ IF DOMAIN products # {}
               THEN /\ seed'[r].pc = "done"
                    /\ seed'[r].outcome \in {"skipped", "OperationalError"}
               ELSE \/ seed'[r].pc = "counted"
                    \/ /\ seed'[r].pc = "done"
                       /\ seed'[r].outcome = "OperationalError"
        /\ ( seed[r].pc = "counted" /\ seed'[r] # seed[r] ) =>
            /\ orders' = orders
            /\ seed'[r].pc = "done"
            /\ IF DOMAIN products # {}
               THEN /\ seed'[r].outcome
                            \in {"IntegrityError", "OperationalError"}
                    /\ products' = products
                    /\ inventory' = inventory
               ELSE \/ /\ seed'[r].outcome = "seeded"
                       /\ products' = SeedProducts
                       /\ Cardinality(DOMAIN products') = 5
                       /\ DOMAIN inventory' = DOMAIN products'
                       /\ \A p \in DOMAIN products' :
                            /\ inventory'[p].product_name = products'[p].name
                            /\ inventory'[p].price = products'[p].price
                            /\ inventory'[p].quantity
                                    = SeedInventory[p].quantity
                    \/ /\ seed'[r].outcome = "OperationalError"
                       /\ products' = products
                       /\ inventory' = inventory]_vars

\* C15 witness: after one run seeded the store and an order took 5 of the
\* 8 keyboards, a run that had counted no products before the seeding
\* failed at its commit and another run skipped: the stock is still 3.
C15_Witness ==
    /\ seed[1] = [pc |-> "done", outcome |-> "IntegrityError"]
    /\ seed[2] = [pc |-> "done", outcome |-> "skipped"]
    /\ DOMAIN orders # {}
    /\ products = SeedProducts
    /\ inventory[3].quantity = 3

\* C16: update_order_status changes nothing but the status and updated_at
\* of the order it addresses: every other order, every other field of
\* that order, the inventory and the products stay as they are; the
\* inventory changes only in the commit of create_order or cancel_order.
C16_UpdateTouchesOnlyStatus ==
    [][/\ \A s \in Sessions :
            ( /\ sess'[s] # sess[s]
              /\ \/ sess[s].pc = "idle" /\ sess'[s].op = "update_order_status"
                 \/ sess[s].op = "update_order_status" /\ sess[s].pc # "done" )
            =>
            LET id == Get(sess'[s].req).order_id IN
            /\ products' = products
            /\ inventory' = inventory
            /\ DOMAIN orders' = DOMAIN orders
            /\ \A k \in DOMAIN orders :
                IF k = id
                THEN orders'[k] =
                        [orders[k] EXCEPT !.status = orders'[k].status,
                                          !.updated_at = orders'[k].updated_at]
                ELSE orders'[k] = orders[k]
       /\ inventory' # inventory =>
            \E s \in Sessions :
                /\ sess[s].pc \in {"create_order_commit", "cancel_order_commit"}
                /\ sess'[s] # sess[s]]_vars

\* C16 witness: with two orders stored, one was set to Shipped at a later
\* time; the other is still Pending with its first updated_at.
C16_Witness ==
    /\ sess[1].op = "update_order_status"
    /\ Responded(1, 200)
    /\ DOMAIN orders = {1, 2}
    /\ \E k \in DOMAIN orders :
        /\ k = Get(sess[1].req).order_id
        /\ orders[k].status = "Shipped"
        /\ orders[k].updated_at > orders[k].created_at
    /\ \E k \in DOMAIN orders :
        /\ k # Get(sess[1].req).order_id
        /\ orders[k].status = "Pending"
        /\ orders[k].updated_at = orders[k].created_at

\* C17: when two cancel_order requests for the same order overlap (both
\* loaded the order before either committed, and the store served both
\* to the end), the order is gone, its
\* quantity went back to the stock exactly once, and at most one of the
\* two answers 200.
OverlappingCancels(s, t) ==
    /\ s # t
    /\ sess[s].op = "cancel_order" /\ sess[t].op = "cancel_order"
    /\ sess[s].pc = "done" /\ sess[t].pc = "done"
    /\ IsSome(sess[s].order) /\ IsSome(sess[t].order)
    /\ Get(sess[s].req).order_id = Get(sess[t].req).order_id
    /\ Get(sess[s].resp) # InternalServerError("OperationalError")
    /\ Get(sess[t].resp) # InternalServerError("OperationalError")
C17_ConcurrentCancelOnce ==
    \A s, t \in Sessions :
        OverlappingCancels(s, t) =>
            /\ Get(sess[s].req).order_id \notin DOMAIN orders
            /\ inventory[Get(sess[s].order).product_id].quantity
                  = SeedInventory[Get(sess[s].order).product_id].quantity
                      - OrderedQuantity(Get(sess[s].order).product_id)
            /\ ~(Responded(s, 200) /\ Responded(t, 200))

\* C18: when the inventory record of the order's product is gone at the
\* time cancel_order looks for it, the cancellation goes on without one:
\* it answers 200, deletes the order, and leaves the inventory table as
\* it is, creating no record.
C18_CancelWithoutInventory ==
    [][\A s \in Sessions :
        /\ ( /\ sess[s].pc = "cancel_order_inventory"
             /\ sess'[s] # sess[s]
             /\ Get(sess[s].order).product_id \notin DOMAIN inventory ) =>
            /\ TablesUnchanged
            /\ \/ sess'[s].pc = "done" /\ StoreFailed(s)
               \/ /\ sess'[s].pc = "cancel_order_commit"
                  /\ IsNone(sess'[s].inventory)
        /\ ( /\ sess[s].pc = "cancel_order_commit"
             /\ sess'[s] # sess[s]
             /\ IsNone(sess[s].inventory) ) =>
            /\ sess'[s].pc = "done"
            /\ products' = products
            /\ inventory' = inventory
            /\ \/ StoreFailed(s) /\ orders' = orders
               \/ /\ Get(sess'[s].resp).status_code = 200
                  /\ Get(sess[s].req).order_id \notin DOMAIN orders'
                  /\ orders' = Delete(orders, Get(sess[s].req).order_id)]_vars

\* C18 witness: an order of keyboards was cancelled with 200 after the
\* keyboards' inventory record had been removed: the order is gone and
\* there is still no such record.
C18_Witness ==
    /\ sess[1].op = "cancel_order"
    /\ Responded(1, 200)
    /\ Get(sess[1].order).product_id = 3
    /\ IsNone(sess[1].inventory)
    /\ Get(sess[1].req).order_id \notin DOMAIN orders
    /\ 3 \notin DOMAIN inventory
    /\ DOMAIN inventory # {}

\* C19: the commit of create_order never replaces or changes an order
\* already stored; when the generated id is taken the request ends with a
\* 500 (IntegrityError) and neither the order nor the inventory decrement
\* is persisted: the inventory changes only together with the insertion
\* of exactly one new order.
C19_IdCollisionFailsWhole ==
    [][\A s \in Sessions :
        ( /\ sess[s].pc = "create_order_commit"
          /\ sess'[s] # sess[s] ) =>
            /\ products' = products
            /\ \A k \in DOMAIN orders :
                k \in DOMAIN orders' /\ orders'[k] = orders[k]
            /\ IF sess'[s].pc = "done"
               THEN /\ Get(sess'[s].resp).status_code = 500
                    /\ orders' = orders
                    /\ inventory' = inventory
               ELSE /\ sess'[s].pc = "create_order_refresh"
                    /\ Get(sess'[s].order).id \notin DOMAIN orders
                    /\ DOMAIN orders'
                          = DOMAIN orders \cup {Get(sess'[s].order).id}]_vars

\* C19 witness: with one order stored, a create_order for 5 laptops drew
\* the stored order's id and died with IntegrityError: still one order,
\* and the 45 laptops are all in stock.
C19_Witness ==
    /\ sess[1].op = "create_order"
    /\ sess[1].pc = "done"
    /\ Get(sess[1].resp) = InternalServerError("IntegrityError")
    /\ Get(sess[1].req).productId = 1
    /\ Get(sess[1].req).quantity = 5
    /\ Cardinality(DOMAIN orders) = 1
    /\ \A k \in DOMAIN orders : orders[k].product_id = 3
    /\ inventory[1].quantity = 45

\* C20: update_order_status never brings a deleted order back: a step of
\* it taken while the order's row is absent (never stored, or deleted by
\* a cancel_order that committed after the update loaded the order)
\* leaves the orders table as it is and does not answer 200, and no step
\* of it adds an order.
C20_NoResurrection ==
    [][\A s \in Sessions :
        ( /\ sess'[s] # sess[s]
          /\ \/ sess[s].pc = "idle" /\ sess'[s].op = "update_order_status"
             \/ sess[s].op = "update_order_status" /\ sess[s].pc # "done" ) =>
            /\ DOMAIN orders' \subseteq DOMAIN orders
            /\ Get(sess'[s].req).order_id \notin DOMAIN orders =>
                /\ orders' = orders
                /\ sess'[s].pc = "done" =>
                        Get(sess'[s].resp).status_code \in {404, 500}
                /\ sess'[s].pc # "done" =>
                        \/ /\ sess[s].pc = "update_order_status_assign"
                           /\ sess'[s].pc = "update_order_status_commit"
                        \/ /\ sess[s].pc = "update_order_status_commit"
                           /\ sess'[s].pc = "update_order_status_refresh"
                           /\ Get(sess[s].order)
                                = UpdatedOrderRow(Get(sess[s].order),
                                      Get(sess[s].req).new_status,
                                      Get(sess[s].now))]_vars

\* C20 witness: an update_order_status to Shipped loaded the order, a
\* cancel_order for the same id then committed with 200, and the update's
\* commit failed with StaleDataError: the order is still gone.
C20_Witness ==
    \E s, t \in Sessions :
        /\ s # t
        /\ sess[s].op = "update_order_status"
        /\ sess[s].pc = "done"
        /\ IsSome(sess[s].order)
        /\ Get(sess[s].req).new_status = "Shipped"
        /\ Get(sess[s].resp) = InternalServerError("StaleDataError")
        /\ sess[t].op = "cancel_order"
        /\ Responded(t, 200)
        /\ Get(sess[t].req).order_id = Get(sess[s].req).order_id
        /\ Get(sess[s].req).order_id \notin DOMAIN orders

====
